---- MODULE Spec2Model ----
(***************************************************************************)
(* A model of profil_logger: LogEntry and its dict form, the four storage  *)
(* handlers (JsonHandler, CSVHandler, FileHandler, SQLLiteHandler), the    *)
(* dispatcher ProfilLogger and the query layer ProfilLoggerReader.         *)
(*                                                                         *)
(* Conventions                                                             *)
(*  - A Python str is a sequence of atoms.  An atom is either one          *)
(*    whitespace character (" ") or a chunk of text without whitespace     *)
(*    ("a", "INFO", "2024-01-01T00:00:00"), so strip, split and substring  *)
(*    search act on a sequence of atoms as they act on the characters.     *)
(*  - A datetime is an index into IsoTable, a chronologically ordered      *)
(*    table of sample instants; 0 (NoDate) is Python's None for an         *)
(*    optional datetime.                                                   *)
(*  - A call that can raise returns a record whose field raised is the     *)
(*    exception's name, "" when the call returned.                         *)
(*  - A storage resource is [writable, state, recs]: recs are the lines,   *)
(*    rows or array elements in file order.                                *)
(***************************************************************************)
EXTENDS Integers, Sequences, FiniteSets, TLC

VARIABLES
    handlers,               \* the handler objects (ProfilLogger.handlers / the reader's handler)
    stores,                 \* stores[i]: the file or database handlers[i] owns
    current_log_level_val,  \* ProfilLogger.current_log_level_val
    recognised,             \* history: the level last named by a recognised set_log_level name
    persisted,              \* history: the entries handed to the handlers so far, in call order
    last,                   \* the last call: [op, arg, before, ret, raised]
    calls                   \* the persist_log_json calls in flight, one per thread

vars == <<handlers, stores, current_log_level_val, recognised, persisted, last, calls>>

(***************************************************************************)
(* Bounds                                                                  *)
(***************************************************************************)
\* Number of entries persisted (or logged) in one behaviour, and of raw
\* records in one store.
MaxStore == 2

(***************************************************************************)
(* Strings                                                                 *)
(***************************************************************************)
Whitespace == {" "}

\* The value None where a str is expected (csv restval, a JSON null).
NONE == <<"<None>">>
\* A value that is neither a str nor None (a JSON number, the csv restkey list).
NOTSTR == <<"<int>">>

IsStr(v) == v \notin {NONE, NOTSTR}

RECURSIVE lstrip(_)
lstrip(s) ==
    IF s # <<>> /\ Head(s) \in Whitespace THEN lstrip(Tail(s)) ELSE s

RECURSIVE rstrip(_)
rstrip(s) ==
    IF s # <<>> /\ s[Len(s)] \in Whitespace
    THEN rstrip(SubSeq(s, 1, Len(s) - 1))
    ELSE s

\* str.strip()
strip(s) == rstrip(lstrip(s))

\* str.split(" ", maxsplit): the separator is one space, runs are not merged.
RECURSIVE split(_, _)
split(s, maxsplit) ==
    IF maxsplit = 0 \/ ~(\E i \in 1..Len(s) : s[i] = " ")
    THEN <<s>>
    ELSE LET i == CHOOSE k \in 1..Len(s) :
                      s[k] = " " /\ \A j \in 1..(k - 1) : s[j] # " "
         IN  <<SubSeq(s, 1, i - 1)>> \o split(SubSeq(s, i + 1, Len(s)), maxsplit - 1)

UpperTable ==
    [c \in {"a", "b", "debug", "info", "Info", "warning", "Warning", "error",
            "Error", "critical", "trex", "unknown"} |->
        CASE c = "a" -> "A"
          [] c = "b" -> "B"
          [] c = "debug" -> "DEBUG"
          [] c \in {"info", "Info"} -> "INFO"
          [] c \in {"warning", "Warning"} -> "WARNING"
          [] c \in {"error", "Error"} -> "ERROR"
          [] c = "critical" -> "CRITICAL"
          [] c = "trex" -> "TREX"
          [] c = "unknown" -> "UNKNOWN"]

\* str.upper()
upper(s) ==
    [i \in 1..Len(s) |-> IF s[i] \in DOMAIN UpperTable THEN UpperTable[s[i]] ELSE s[i]]

\* text in message
Contains(text, message) ==
    \E i \in 0..(Len(message) - Len(text)) :
        SubSeq(message, i + 1, i + Len(text)) = text

(***************************************************************************)
(* Levels and datetimes                                                    *)
(***************************************************************************)
DEBUG == <<"DEBUG">>
INFO == <<"INFO">>
WARNING == <<"WARNING">>
ERROR == <<"ERROR">>
CRITICAL == <<"CRITICAL">>

LOG_LEVEL_VALUES ==
    (DEBUG :> 0) @@ (INFO :> 1) @@ (WARNING :> 2) @@ (ERROR :> 3) @@ (CRITICAL :> 4)

DEFAULT_LOG_LEVEL == DEBUG

LevelNames == DOMAIN LOG_LEVEL_VALUES

\* The sample instants, in chronological order, as datetime.isoformat() writes them.
IsoTable == <<"2024-01-01T00:00:00", "2024-01-02T00:00:00", "2024-02-01T00:00:00">>
\* strftime("%Y-%m") of the same instants.
MonthTable == <<"2024-01", "2024-01", "2024-02">>

DateTimes == 1..Len(IsoTable)
NoDate == 0

\* datetime.isoformat()
isoformat(d) == <<IsoTable[d]>>

\* datetime.datetime.fromisoformat(s)
fromisoformat(s) ==
    IF ~IsStr(s) THEN [raised |-> "TypeError", value |-> NoDate]
    ELSE IF Len(s) = 1 /\ \E d \in DateTimes : IsoTable[d] = s[1]
         THEN [raised |-> "", value |-> CHOOSE d \in DateTimes : IsoTable[d] = s[1]]
         ELSE [raised |-> "ValueError", value |-> NoDate]

\* datetime.strftime("%Y-%m")
strftime_Ym(d) == <<MonthTable[d]>>

(***************************************************************************)
(* LogEntry                                                                *)
(***************************************************************************)
LogEntry(date, level, message) ==
    [date |-> date, level |-> level, message |-> message]

\* A Python object that is no LogEntry and no dict.
PyObject(type) == [py_type |-> type]
None == PyObject("NoneType")

IsLogEntry(x) == "py_type" \notin DOMAIN x

to_dict(self) ==
    [date |-> isoformat(self.date), level |-> self.level, message |-> self.message]

\* from_dict without the test of the level against LOG_LEVEL_VALUES.
from_dict_any_level(data) ==
    IF "py_type" \in DOMAIN data
    THEN [raised |-> IF data.py_type \in {"str", "list"} THEN "AttributeError"
                     ELSE "TypeError",
          value |-> None]
    ELSE IF ~({"date", "level", "message"} \subseteq DOMAIN data)
    THEN [raised |-> "", value |-> None]
    ELSE LET date == fromisoformat(data.date)
         IN  IF date.raised # ""
             THEN [raised |-> "", value |-> None]
             ELSE [raised |-> "",
                   value |-> LogEntry(date.value, data.level, data.message)]

\* LogEntry.from_dict.  A data that is no dict fails outside the try block:
\* required_keys.issubset(data) raises TypeError for a value that cannot be
\* iterated, and is False for a str or a list, whose data.keys() then raises
\* AttributeError.
from_dict(data) ==
    IF "py_type" \in DOMAIN data
    THEN [raised |-> IF data.py_type \in {"str", "list"} THEN "AttributeError"
                     ELSE "TypeError",
          value |-> None]
    ELSE IF ~({"date", "level", "message"} \subseteq DOMAIN data)
    THEN [raised |-> "", value |-> None]
    ELSE LET date == fromisoformat(data.date)
         IN  IF date.raised # ""
             THEN [raised |-> "", value |-> None]
             ELSE IF data.level \notin DOMAIN LOG_LEVEL_VALUES
             THEN [raised |-> "", value |-> None]
             ELSE [raised |-> "",
                   value |-> LogEntry(date.value, data.level, data.message)]

(***************************************************************************)
(* Storage resources                                                       *)
(***************************************************************************)
\* A path at which nothing exists yet.
MissingStore == [writable |-> TRUE, state |-> "missing", recs |-> <<>>]

Returned(self, store) == [raised |-> "", self |-> self, store |-> store]
Raised(exc, self, store) == [raised |-> exc, self |-> self, store |-> store]

\* The decoded entries of a sequence of from_dict results, up to the first
\* one that raised: [raised, ret].
RECURSIVE CollectEntries(_, _)
CollectEntries(dicts, acc) ==
    IF dicts = <<>> THEN [raised |-> "", ret |-> acc]
    ELSE LET log == from_dict(Head(dicts))
         IN  IF log.raised # "" THEN [raised |-> log.raised, ret |-> <<>>]
             ELSE CollectEntries(Tail(dicts),
                                 IF IsLogEntry(log.value) THEN Append(acc, log.value)
                                 ELSE acc)

----------------------------------------------------------------------------
(* JsonHandler: state is "missing", "empty" (size 0), "malformed" (not JSON),
   or the type of the top-level JSON value: "array" (recs are its elements),
   "object" (a non-empty object) or "number". *)

\* The constructor without the os.path.exists test: the file is always
\* rewritten as [].
JsonHandler_init_rewrites(store) ==
    Returned([class |-> "JsonHandler"], [store EXCEPT !.state = "array", !.recs = <<>>])

JsonHandler_init(store) ==
    IF store.state = "missing"
    THEN IF store.writable
         THEN Returned([class |-> "JsonHandler"],
                       [store EXCEPT !.state = "array", !.recs = <<>>])
         ELSE Raised("OSError", None, store)
    ELSE Returned([class |-> "JsonHandler"], store)

\* persist_log_json without the reading of the file: the file is rewritten
\* with the new entry alone.
persist_log_json_overwrites(self, store, entry) ==
    IF ~store.writable THEN Raised("OSError", self, store)
    ELSE Returned(self, [store EXCEPT !.state = "array", !.recs = <<to_dict(entry)>>])

persist_log_json(self, store, entry) ==
    LET loaded == IF store.state \in {"missing", "empty", "malformed"}
                  THEN [state |-> "array", recs |-> <<>>]
                  ELSE [state |-> store.state, recs |-> store.recs]
    IN  IF loaded.state # "array" THEN Raised("AttributeError", self, store)
        ELSE IF ~store.writable THEN Raised("OSError", self, store)
        ELSE Returned(self, [store EXCEPT !.state = "array",
                                          !.recs = Append(loaded.recs, to_dict(entry))])

retrieve_all_logs_json(self, store) ==
    CASE store.state \in {"missing", "empty", "malformed"} -> [raised |-> "", ret |-> <<>>]
      [] store.state = "number" -> [raised |-> "TypeError", ret |-> <<>>]
      [] store.state = "object" -> CollectEntries(<<PyObject("str")>>, <<>>)
      [] store.state = "array" -> CollectEntries(store.recs, <<>>)

----------------------------------------------------------------------------
(* CSVHandler: recs are the rows of the file, the header row first; a row
   is a sequence of fields.  A file of size 0 has no rows. *)

HEADERS == <<"date", "level", "message">>

HeaderRow == [i \in 1..Len(HEADERS) |-> <<HEADERS[i]>>]

CSVHandler_init(store) ==
    IF store.state = "missing" \/ store.recs = <<>>
    THEN IF store.writable
         THEN Returned([class |-> "CSVHandler"],
                       [store EXCEPT !.state = "ok", !.recs = <<HeaderRow>>])
         ELSE Raised("OSError", None, store)
    ELSE Returned([class |-> "CSVHandler"], store)

persist_log_csv(self, store, entry) ==
    LET log_data_dict == to_dict(entry)
    IN  IF ~store.writable THEN Raised("OSError", self, store)
        ELSE Returned(self,
                 [store EXCEPT !.state = "ok",
                               !.recs = Append(store.recs,
                                               <<log_data_dict[HEADERS[1]],
                                                 log_data_dict[HEADERS[2]],
                                                 log_data_dict[HEADERS[3]]>>)])

\* The dict key of a field name of the header row.
KeyOf(fieldname) == IF Len(fieldname) = 1 THEN fieldname[1] ELSE "<text>"

\* One row of csv.DictReader: a short row is filled with None (restval), the
\* surplus fields of a long row go under the key None (restkey).
DictReaderRow(fieldnames, row) ==
    LET keys == {KeyOf(fieldnames[i]) : i \in 1..Len(fieldnames)}
        col(k) == CHOOSE i \in 1..Len(fieldnames) :
                      /\ KeyOf(fieldnames[i]) = k
                      /\ \A j \in (i + 1)..Len(fieldnames) : KeyOf(fieldnames[j]) # k
        named == [k \in keys |-> IF col(k) <= Len(row) THEN row[col(k)] ELSE NONE]
    IN  IF Len(row) > Len(fieldnames) THEN named @@ ("<restkey>" :> NOTSTR) ELSE named

\* csv.DictReader: the first row names the fields, empty rows are skipped.
DictReader(rows) ==
    IF rows = <<>> THEN <<>>
    ELSE LET data == SelectSeq(Tail(rows), LAMBDA r : r # <<>>)
         IN  [i \in 1..Len(data) |-> DictReaderRow(rows[1], data[i])]

retrieve_all_logs_csv(self, store) ==
    IF store.state = "missing" THEN [raised |-> "", ret |-> <<>>]
    ELSE CollectEntries(DictReader(store.recs), <<>>)

----------------------------------------------------------------------------
(* FileHandler: recs are the lines of the file, each without its "\n". *)

FileHandler_init(store) ==
    IF store.state = "missing"
    THEN IF store.writable
         THEN Returned([class |-> "FileHandler", total_lines_written |-> 0],
                       [store EXCEPT !.state = "ok", !.recs = <<>>])
         ELSE Raised("OSError", None, store)
    ELSE Returned([class |-> "FileHandler", total_lines_written |-> 0], store)

persist_log_file(self, store, entry) ==
    LET log_line == isoformat(entry.date) \o <<" ">> \o entry.level \o <<" ">>
                        \o entry.message
    IN  IF ~store.writable THEN Raised("OSError", self, store)
        ELSE Returned([self EXCEPT !.total_lines_written = @ + 1],
                      [store EXCEPT !.state = "ok", !.recs = Append(store.recs, log_line)])

\* The entry of one line, or None for a line that is skipped.
ParseLine(line_content_str) ==
    LET parts == split(strip(line_content_str), 2)
    IN  IF Len(parts) = 3
        THEN LET date == fromisoformat(parts[1])
             IN  IF date.raised # "" THEN None
                 ELSE LogEntry(date.value, upper(parts[2]), parts[3])
        ELSE None

retrieve_all_logs_file(self, store) ==
    IF store.state = "missing" THEN [raised |-> "", ret |-> <<>>]
    ELSE LET parsed == [i \in 1..Len(store.recs) |-> ParseLine(store.recs[i])]
         IN  [raised |-> "", ret |-> SelectSeq(parsed, IsLogEntry)]

----------------------------------------------------------------------------
(* SQLLiteHandler: state "missing" is a database without the logs table;
   recs are the rows of the table in rowid order. *)

SQLLiteHandler_init(store) ==
    IF store.state = "missing"
    THEN IF store.writable
         THEN Returned([class |-> "SQLLiteHandler"],
                       [store EXCEPT !.state = "ok", !.recs = <<>>])
         ELSE Raised("OperationalError", None, store)
    ELSE Returned([class |-> "SQLLiteHandler"], store)

persist_log_sql(self, store, entry) ==
    IF ~store.writable \/ store.state = "missing"
    THEN Raised("OperationalError", self, store)
    ELSE Returned(self,
             [store EXCEPT !.recs = Append(store.recs,
                                        [id |-> Len(store.recs) + 1,
                                         timestamp |-> isoformat(entry.date),
                                         level |-> entry.level,
                                         message |-> entry.message])])

\* The rank of a timestamp text under SQLite's BINARY collation: the ISO
\* texts of IsoTable sort chronologically, any text starting with a letter
\* sorts after them.
TextRank(text) ==
    IF Len(text) = 1 /\ \E d \in DateTimes : IsoTable[d] = text[1]
    THEN CHOOSE d \in DateTimes : IsoTable[d] = text[1]
    ELSE Len(IsoTable) + 1

\* The SELECT without ORDER BY: the rows come in rowid order.
RowidOrder(rows) == {[i \in 1..Len(rows) |-> i]}

\* ORDER BY timestamp ASC: every order of the rows that is ascending in the
\* timestamp text (SQLite leaves the order of rows with equal keys open).
OrderByTimestampAsc(rows) ==
    {p \in Permutations(1..Len(rows)) :
        \A i, j \in 1..Len(rows) :
            i < j => TextRank(rows[p[i]].timestamp) <= TextRank(rows[p[j]].timestamp)}

\* The entry of one fetched row, or None for a row that is skipped.
ParseRow(row) ==
    LET date == fromisoformat(row.timestamp)
    IN  IF date.raised # "" THEN None
        ELSE LogEntry(date.value, row.level, row.message)

\* The possible results: one per order the SELECT may return.
retrieve_all_logs_sql(self, store) ==
    IF store.state = "missing" THEN {[raised |-> "", ret |-> <<>>]}
    ELSE {[raised |-> "",
           ret |-> SelectSeq([i \in 1..Len(store.recs) |-> ParseRow(store.recs[p[i]])],
                             IsLogEntry)] :
            p \in OrderByTimestampAsc(store.recs)}

(***************************************************************************)
(* Handler objects                                                         *)
(***************************************************************************)
Classes == {"JsonHandler", "CSVHandler", "FileHandler", "SQLLiteHandler"}

\* The one persist method and the one retrieve method each class defines.
PersistMethodOf(class) ==
    CASE class = "SQLLiteHandler" -> "persist_log_sql"
      [] class = "JsonHandler" -> "persist_log_json"
      [] class = "CSVHandler" -> "persist_log_csv"
      [] class = "FileHandler" -> "persist_log_file"

RetrieveMethodOf(class) ==
    CASE class = "SQLLiteHandler" -> "retrieve_all_logs_sql"
      [] class = "JsonHandler" -> "retrieve_all_logs_json"
      [] class = "CSVHandler" -> "retrieve_all_logs_csv"
      [] class = "FileHandler" -> "retrieve_all_logs_file"

\* callable(getattr(handler, method_name, None)).  A handler may be any
\* object: one of class "DuckHandler" exposes the methods in its exposes
\* field, of which those in its failing field raise whenever called.
HasMethod(handler, method_name) ==
    IF handler.class = "DuckHandler" THEN method_name \in handler.exposes
    ELSE method_name \in {PersistMethodOf(handler.class),
                          RetrieveMethodOf(handler.class)}

\* class(path): the constructor.
NewHandler(class, store) ==
    CASE class = "SQLLiteHandler" -> SQLLiteHandler_init(store)
      [] class = "JsonHandler" -> JsonHandler_init(store)
      [] class = "CSVHandler" -> CSVHandler_init(store)
      [] class = "FileHandler" -> FileHandler_init(store)

\* handler.<method_name>(entry).  A method of a DuckHandler that does not
\* raise records its name and the entry in the handler's store.
CallPersist(method_name, self, store, entry) ==
    IF self.class = "DuckHandler"
    THEN IF method_name \in self.failing THEN Raised("Exception", self, store)
         ELSE Returned(self, [store EXCEPT !.recs = Append(@, <<method_name, entry>>)])
    ELSE
    CASE method_name = "persist_log_sql" -> persist_log_sql(self, store, entry)
      [] method_name = "persist_log_json" -> persist_log_json(self, store, entry)
      [] method_name = "persist_log_csv" -> persist_log_csv(self, store, entry)
      [] method_name = "persist_log_file" -> persist_log_file(self, store, entry)

\* handler.<method_name>(): the set of possible results.
CallRetrieve(method_name, self, store) ==
    CASE method_name = "retrieve_all_logs_sql" -> retrieve_all_logs_sql(self, store)
      [] method_name = "retrieve_all_logs_json" -> {retrieve_all_logs_json(self, store)}
      [] method_name = "retrieve_all_logs_csv" -> {retrieve_all_logs_csv(self, store)}
      [] method_name = "retrieve_all_logs_file" -> {retrieve_all_logs_file(self, store)}

\* Retrieve-all of a handler through the method of its class.
RetrieveAll(handler, store) ==
    CallRetrieve(RetrieveMethodOf(handler.class), handler, store)

(***************************************************************************)
(* Calls on one handler (handlers[1]) and its store                        *)
(***************************************************************************)
Call(op, arg, before, ret, raised) ==
    [op |-> op, arg |-> arg, before |-> before, ret |-> ret, raised |-> raised]

\* A handler of one class constructed on a path where nothing exists.
InitHandler ==
    /\ \E class \in Classes :
          LET new == NewHandler(class, MissingStore)
          IN  /\ handlers = <<new.self>>
              /\ stores = <<new.store>>
    /\ current_log_level_val = LOG_LEVEL_VALUES[DEFAULT_LOG_LEVEL]
    /\ recognised = DEFAULT_LOG_LEVEL
    /\ persisted = <<>>
    /\ last = Call("init", <<>>, <<>>, <<>>, "")
    /\ calls = <<>>

\* A handler of the same class is constructed again on the same store.
Construct ==
    LET new == NewHandler(handlers[1].class, stores[1])
    IN  /\ handlers' = <<IF new.raised = "" THEN new.self ELSE handlers[1]>>
        /\ stores' = <<new.store>>
        /\ last' = Call("construct", handlers[1].class,
                        RetrieveAll(handlers[1], stores[1]), <<>>, new.raised)
        /\ UNCHANGED <<calls, current_log_level_val, recognised, persisted>>

\* handler.persist_log_*(entry), called directly.
Persist(entry) ==
    /\ Len(persisted) < MaxStore
    /\ Len(stores[1].recs) <= MaxStore
    /\ LET done == CallPersist(PersistMethodOf(handlers[1].class),
                               handlers[1], stores[1], entry)
       IN  /\ handlers' = <<done.self>>
           /\ stores' = <<done.store>>
           /\ persisted' = IF done.raised = "" THEN Append(persisted, entry)
                           ELSE persisted
           /\ last' = Call("persist", entry, <<>>, <<>>, done.raised)
    /\ UNCHANGED <<calls, current_log_level_val, recognised>>

\* handler.retrieve_all_logs_*()
Retrieve ==
    /\ \E got \in RetrieveAll(handlers[1], stores[1]) :
          last' = Call("retrieve", <<>>, <<>>, got.ret, got.raised)
    /\ UNCHANGED <<calls, handlers, stores, current_log_level_val, recognised, persisted>>

\* The entries persisted directly: every message shape at one level, every
\* level with one message.
Messages == {<<>>, <<"a">>, <<"a", " ">>, <<" ", "a">>, <<"a", " ", "b">>}

HandlerEntries ==
    {LogEntry(d, INFO, m) : d \in DateTimes, m \in Messages}
        \cup {LogEntry(1, l, <<"a">>) : l \in LevelNames}

PersistAny == \E entry \in HandlerEntries : Persist(entry)

NextHandler == Construct \/ PersistAny \/ Retrieve

\* One handler, used only through its own methods.
SpecHandler == InitHandler /\ [][NextHandler]_vars

(***************************************************************************)
(* The store written behind the handler's back (tests write the file or    *)
(* the table directly)                                                     *)
(***************************************************************************)
Iso1 == IsoTable[1]

\* Records with the wrong number of fields, a date that is no ISO-8601 text
\* or a level that is none of the five.
MalformedRecords(class) ==
    CASE class = "FileHandler" ->
            {<<Iso1, " ", "INFO">>,
             <<"not-a-date", " ", "INFO", " ", "a">>,
             <<Iso1, " ", "TREX", " ", "a">>}
      [] class = "CSVHandler" ->
            {<<<<Iso1>>, INFO>>,
             <<<<Iso1>>, INFO, <<"a">>, <<"b">>>>,
             <<<<"not-a-date">>, INFO, <<"a">>>>,
             <<<<Iso1>>, <<"TREX">>, <<"a">>>>}
      [] class = "JsonHandler" ->
            {[date |-> <<Iso1>>, message |-> <<"a">>],
             [date |-> <<"not-a-date">>, level |-> INFO, message |-> <<"a">>],
             [date |-> <<Iso1>>, level |-> <<"TREX">>, message |-> <<"a">>]}
      [] class = "SQLLiteHandler" ->
            {[id |-> 0, timestamp |-> <<"not-a-date">>, level |-> INFO,
              message |-> <<"a">>],
             [id |-> 0, timestamp |-> <<Iso1>>, level |-> <<"TREX">>,
              message |-> <<"a">>]}

\* Array elements that are no entry objects: a string, a number, an object
\* whose date is a number.
ForeignRecords(class) ==
    IF class = "JsonHandler"
    THEN {PyObject("str"), PyObject("int"),
          [date |-> NOTSTR, level |-> INFO, message |-> <<"a">>]}
    ELSE {}

\* What a store can be replaced by: deleted, truncated to size 0, filled
\* with text that is no JSON, with a JSON object or a JSON number; the logs
\* table dropped.
ClobberStates(class) ==
    CASE class = "FileHandler" -> {"missing", "ok"}
      [] class = "CSVHandler" -> {"missing", "ok"}
      [] class = "JsonHandler" -> {"missing", "empty", "malformed", "object", "number"}
      [] class = "SQLLiteHandler" -> {"missing"}

\* One record is appended to the file (or inserted into the table).
AppendRaw ==
    /\ stores[1].state \in {"ok", "array"}
    /\ Len(stores[1].recs) <= MaxStore
    /\ \E rec \in MalformedRecords(handlers[1].class) \cup ForeignRecords(handlers[1].class) :
          LET row == IF handlers[1].class = "SQLLiteHandler"
                     THEN [rec EXCEPT !.id = Len(stores[1].recs) + 1]
                     ELSE rec
          IN  /\ stores' = <<[stores[1] EXCEPT !.recs = Append(@, row)]>>
              /\ last' = Call("append_raw", row, <<>>, <<>>, "")
    /\ UNCHANGED <<calls, handlers, current_log_level_val, recognised, persisted>>

\* The whole store is replaced.
Clobber ==
    /\ \E state \in ClobberStates(handlers[1].class) :
          /\ stores' = <<[stores[1] EXCEPT !.state = state, !.recs = <<>>]>>
          /\ last' = Call("clobber", state, <<>>, <<>>, "")
    /\ UNCHANGED <<calls, handlers, current_log_level_val, recognised, persisted>>

TamperEntries == {LogEntry(1, INFO, <<"a">>), LogEntry(2, ERROR, <<"a", " ", "b">>)}

PersistValid == \E entry \in TamperEntries : Persist(entry)

NextTamper == Construct \/ PersistValid \/ Retrieve \/ AppendRaw \/ Clobber

\* One handler whose store is also written from outside.
SpecTamper == InitHandler /\ [][NextTamper]_vars

(***************************************************************************)
(* ProfilLogger                                                            *)
(***************************************************************************)
persist_methods ==
    <<"persist_log_sql", "persist_log_json", "persist_log_csv", "persist_log_file">>

\* The loop of _write_to_handler without the return after a method that
\* completed: every exposed method is called.
RECURSIVE TryPersistMethods_no_return(_, _, _, _, _)
TryPersistMethods_no_return(names, handler, store, entry, attempts) ==
    IF names = <<>>
    THEN [raised |-> "", self |-> handler, store |-> store, attempts |-> attempts,
          error_logged |-> store.recs = <<>>]
    ELSE IF HasMethod(handler, Head(names))
    THEN LET done == CallPersist(Head(names), handler, store, entry)
         IN  TryPersistMethods_no_return(Tail(names), done.self, done.store, entry,
                                         Append(attempts, Head(names)))
    ELSE TryPersistMethods_no_return(Tail(names), handler, store, entry, attempts)

\* The loop of _write_to_handler over the method names still to try;
\* attempts are the methods called so far.
RECURSIVE TryPersistMethods(_, _, _, _, _)
TryPersistMethods(names, handler, store, entry, attempts) ==
    IF names = <<>>
    THEN [raised |-> "", self |-> handler, store |-> store, attempts |-> attempts,
          error_logged |-> TRUE]
    ELSE IF HasMethod(handler, Head(names))
    THEN LET done == CallPersist(Head(names), handler, store, entry)
         IN  IF done.raised = ""
             THEN [raised |-> "", self |-> done.self, store |-> done.store,
                   attempts |-> Append(attempts, Head(names)),
                   error_logged |-> FALSE]
             ELSE TryPersistMethods(Tail(names), done.self, done.store, entry,
                                    Append(attempts, Head(names)))
    ELSE TryPersistMethods(Tail(names), handler, store, entry, attempts)

\* _write_to_handler without its try/except: the exception of the persist
\* method leaves the call.
write_to_handler_uncaught(handler, store, entry) ==
    LET done == CallPersist(PersistMethodOf(handler.class), handler, store, entry)
    IN  [raised |-> done.raised, self |-> done.self, store |-> done.store,
         attempts |-> <<PersistMethodOf(handler.class)>>, error_logged |-> FALSE]

\* ProfilLogger._write_to_handler: error_logged is the logger.error call
\* that ends it when no method returned.
write_to_handler(handler, store, entry) ==
    TryPersistMethods(persist_methods, handler, store, entry, <<>>)

\* The loop of _log over self.handlers from the i-th on; trace holds what
\* _write_to_handler did per handler.  An exception leaving a call ends
\* the loop and leaves _log.
RECURSIVE ForEachHandler(_, _, _, _, _)
ForEachHandler(i, hs, ss, entry, trace) ==
    IF i > Len(hs)
    THEN [raised |-> "", handlers |-> hs, stores |-> ss, trace |-> trace]
    ELSE LET w == write_to_handler(hs[i], ss[i], entry)
         IN  IF w.raised # ""
             THEN [raised |-> w.raised, handlers |-> hs, stores |-> ss, trace |-> trace]
             ELSE ForEachHandler(i + 1, [hs EXCEPT ![i] = w.self],
                                 [ss EXCEPT ![i] = w.store], entry,
                                 Append(trace, [attempts |-> w.attempts,
                                                error_logged |-> w.error_logged]))

\* _log with <= for <: a message at the threshold is dropped.
log_threshold_excluded(level, message, now) ==
    IF LOG_LEVEL_VALUES[level] <= current_log_level_val
    THEN [raised |-> "", handlers |-> handlers, stores |-> stores, trace |-> <<>>]
    ELSE ForEachHandler(1, handlers, stores, LogEntry(now, level, message), <<>>)

\* ProfilLogger._log(level, message), with now the value of datetime.now().
log(level, message, now) ==
    IF LOG_LEVEL_VALUES[level] < current_log_level_val
    THEN [raised |-> "", handlers |-> handlers, stores |-> stores, trace |-> <<>>]
    ELSE ForEachHandler(1, handlers, stores, LogEntry(now, level, message), <<>>)

\* The level each of info, warning, critical, error, debug passes to _log.
LevelOfMethod ==
    [info |-> INFO, warning |-> WARNING, critical |-> CRITICAL, error |-> ERROR,
     debug |-> DEBUG]

\* set_log_level without upper(): only the upper-case names are recognised.
set_log_level_case_sensitive(level) ==
    IF level \in DOMAIN LOG_LEVEL_VALUES
    THEN LOG_LEVEL_VALUES[level]
    ELSE current_log_level_val

\* ProfilLogger.set_log_level(level): the new current_log_level_val.
set_log_level(level) ==
    IF upper(level) \in DOMAIN LOG_LEVEL_VALUES
    THEN LOG_LEVEL_VALUES[upper(level)]
    ELSE current_log_level_val

\* The lists of handler classes a ProfilLogger is built with.
ClassLists ==
    {<<"FileHandler", "JsonHandler">>,
     <<"SQLLiteHandler", "CSVHandler", "FileHandler">>}

\* ProfilLogger(handlers): every handler was constructed on a fresh path;
\* the paths marked unwritable have since become so, which makes every
\* persist of their handler raise.
Init ==
    /\ \E classes \in ClassLists :
       \E writable \in [1..Len(classes) -> BOOLEAN] :
          /\ handlers = [i \in 1..Len(classes) |-> NewHandler(classes[i], MissingStore).self]
          /\ stores = [i \in 1..Len(classes) |->
                          [NewHandler(classes[i], MissingStore).store
                              EXCEPT !.writable = writable[i]]]
    /\ current_log_level_val = LOG_LEVEL_VALUES[DEFAULT_LOG_LEVEL]
    /\ recognised = DEFAULT_LOG_LEVEL
    /\ persisted = <<>>
    /\ last = Call("init", <<>>, <<>>, <<>>, "")
    /\ calls = <<>>

\* The number of records in each store.
Counts(ss) == [i \in 1..Len(ss) |-> Len(ss[i].recs)]

\* logger.debug / info / warning / error / critical (message); datetime.now()
\* is a clock that has moved on since the entry before.
Log ==
    /\ Len(persisted) < MaxStore
    /\ \E method \in DOMAIN LevelOfMethod, message \in {<<"a">>}, now \in {Len(persisted) + 1} :
          LET level == LevelOfMethod[method]
              done == log(level, message, now)
          IN  /\ handlers' = done.handlers
              /\ stores' = done.stores
              /\ persisted' =
                    IF LOG_LEVEL_VALUES[level] < current_log_level_val THEN persisted
                    ELSE Append(persisted, LogEntry(now, level, message))
              /\ last' = Call(method, LogEntry(now, level, message), Counts(stores),
                              done.trace, done.raised)
    /\ UNCHANGED <<calls, current_log_level_val, recognised>>

\* The names passed to set_log_level.
LevelNameInputs ==
    {<<"error">>, <<"Warning">>, <<"INFO">>, <<"unknown">>, <<"INFO", " ">>}

\* The spellings of each level, ignoring case, among the atoms of the model.
Spellings ==
    (DEBUG :> {"DEBUG", "debug"}) @@ (INFO :> {"INFO", "info", "Info"})
        @@ (WARNING :> {"WARNING", "warning", "Warning"})
        @@ (ERROR :> {"ERROR", "error", "Error"})
        @@ (CRITICAL :> {"CRITICAL", "critical"})

\* The level a name matches ignoring case, if any.
Named(name) == {l \in LevelNames : Len(name) = 1 /\ name[1] \in Spellings[l]}

\* logger.set_log_level(name)
SetLogLevel ==
    /\ \E name \in LevelNameInputs :
          /\ current_log_level_val' = set_log_level(name)
          /\ recognised' = IF Named(name) # {} THEN CHOOSE l \in Named(name) : TRUE
                           ELSE recognised
          /\ last' = Call("set_log_level", name, <<>>, <<>>, "")
    /\ UNCHANGED <<calls, handlers, stores, persisted>>

Next == Log \/ SetLogLevel

\* A ProfilLogger over its handlers.
Spec == Init /\ [][Next]_vars

(***************************************************************************)
(* ProfilLoggerReader                                                      *)
(***************************************************************************)
retrieve_methods ==
    <<"retrieve_all_logs_sql", "retrieve_all_logs_json", "retrieve_all_logs_csv",
      "retrieve_all_logs_file">>

\* The loop of _get_all_logs_from_handler over the method names still to
\* try: the set of possible results.  An AttributeError leaving a method
\* moves on to the next name, any other exception leaves the reader.
RECURSIVE TryRetrieveMethods(_, _, _)
TryRetrieveMethods(names, handler, store) ==
    IF names = <<>> THEN {[raised |-> "", ret |-> <<>>]}
    ELSE IF HasMethod(handler, Head(names))
    THEN UNION {IF got.raised = "AttributeError"
                THEN TryRetrieveMethods(Tail(names), handler, store)
                ELSE {got} : got \in CallRetrieve(Head(names), handler, store)}
    ELSE TryRetrieveMethods(Tail(names), handler, store)

\* ProfilLoggerReader._get_all_logs_from_handler
get_all_logs_from_handler(handler, store) ==
    TryRetrieveMethods(retrieve_methods, handler, store)

\* _filter_by_date with <= for < on end_date.
filter_by_date_end_included(logs, start_date, end_date) ==
    SelectSeq(logs, LAMBDA entry :
        /\ (start_date = NoDate \/ entry.date >= start_date)
        /\ (end_date = NoDate \/ entry.date <= end_date))

\* ProfilLoggerReader._filter_by_date
filter_by_date(logs, start_date, end_date) ==
    SelectSeq(logs, LAMBDA entry :
        /\ (start_date = NoDate \/ entry.date >= start_date)
        /\ (end_date = NoDate \/ entry.date < end_date))

\* ProfilLoggerReader.find_by_text on what the handler returned: text in
\* log.message raises TypeError for a message that is no str.
find_by_text(all_logs, text, start_date, end_date) ==
    IF \E i \in 1..Len(all_logs) : ~IsStr(all_logs[i].message)
    THEN [raised |-> "TypeError", ret |-> <<>>]
    ELSE [raised |-> "",
          ret |-> filter_by_date(
                      SelectSeq(all_logs, LAMBDA entry : Contains(text, entry.message)),
                      start_date, end_date)]

\* grouped[key].append(log) for each log in turn, on a defaultdict(list).
RECURSIVE GroupInto(_, _, _)
GroupInto(grouped, keys, logs) ==
    IF logs = <<>> THEN grouped
    ELSE GroupInto(IF Head(keys) \in DOMAIN grouped
                   THEN [grouped EXCEPT ![Head(keys)] = Append(@, Head(logs))]
                   ELSE grouped @@ (Head(keys) :> <<Head(logs)>>),
                   Tail(keys), Tail(logs))

\* The dict without keys.
EmptyDict == [k \in {} |-> <<>>]

\* group_by_level starting from a dict that has every level as a key.
group_by_level_all_keys(all_logs, start_date, end_date) ==
    LET logs_to_group == filter_by_date(all_logs, start_date, end_date)
    IN  GroupInto([l \in LevelNames |-> <<>>],
                  [i \in 1..Len(logs_to_group) |-> logs_to_group[i].level],
                  logs_to_group)

\* ProfilLoggerReader.group_by_level on what the handler returned.
group_by_level(all_logs, start_date, end_date) ==
    LET logs_to_group == filter_by_date(all_logs, start_date, end_date)
    IN  GroupInto(EmptyDict,
                  [i \in 1..Len(logs_to_group) |-> logs_to_group[i].level],
                  logs_to_group)

\* ProfilLoggerReader.group_by_month on what the handler returned.
group_by_month(all_logs, start_date, end_date) ==
    LET logs_to_group == filter_by_date(all_logs, start_date, end_date)
    IN  GroupInto(EmptyDict,
                  [i \in 1..Len(logs_to_group) |-> strftime_Ym(logs_to_group[i].date)],
                  logs_to_group)

\* The result of persisting the entries, in order, through the handler.
RECURSIVE PersistAll(_, _, _)
PersistAll(handler, store, entries) ==
    IF entries = <<>> THEN [self |-> handler, store |-> store]
    ELSE LET done == CallPersist(PersistMethodOf(handler.class), handler, store,
                                 Head(entries))
         IN  PersistAll(done.self, done.store, Tail(entries))

\* Number of entries in the store the reader reads.
MaxRead == 3

ReaderEntries ==
    {LogEntry(1, INFO, <<"a">>), LogEntry(2, ERROR, <<"A", "a">>),
     LogEntry(3, INFO, <<"a", "b">>)}

SeqsUpTo(S, n) == UNION {[1..k -> S] : k \in 0..n}

\* ProfilLoggerReader(handler): the handler's store holds entries persisted
\* through it, with timestamps in any order.
InitReader ==
    /\ \E class \in Classes, entries \in SeqsUpTo(ReaderEntries, MaxRead) :
          LET new == NewHandler(class, MissingStore)
              filled == PersistAll(new.self, new.store, entries)
          IN  /\ handlers = <<filled.self>>
              /\ stores = <<filled.store>>
              /\ persisted = entries
    /\ current_log_level_val = LOG_LEVEL_VALUES[DEFAULT_LOG_LEVEL]
    /\ recognised = DEFAULT_LOG_LEVEL
    /\ last = Call("init", <<>>, <<>>, <<>>, "")
    /\ calls = <<>>

Texts == {<<>>, <<"A">>, <<"a", "b">>}

\* The values of start_date and of end_date: unset, or an instant that is
\* the timestamp of an entry.
StartDates == {NoDate, 2}
EndDates == {NoDate, 2, 3}

\* reader.find_by_text(text, start_date, end_date); before is what the
\* handler returned.
FindByText ==
    /\ \E text \in Texts, start_date \in StartDates, end_date \in EndDates :
       \E got \in get_all_logs_from_handler(handlers[1], stores[1]) :
          LET found == IF got.raised # "" THEN got
                       ELSE find_by_text(got.ret, text, start_date, end_date)
          IN  last' = Call("find_by_text",
                           [text |-> text, start_date |-> start_date,
                            end_date |-> end_date],
                           got.ret, found.ret, found.raised)
    /\ UNCHANGED <<calls, handlers, stores, current_log_level_val, recognised, persisted>>

\* reader.group_by_level(start_date, end_date)
GroupByLevel ==
    /\ \E start_date \in StartDates, end_date \in EndDates :
       \E got \in get_all_logs_from_handler(handlers[1], stores[1]) :
          last' = Call("group_by_level",
                       [start_date |-> start_date, end_date |-> end_date],
                       got.ret,
                       IF got.raised # "" THEN EmptyDict
                       ELSE group_by_level(got.ret, start_date, end_date),
                       got.raised)
    /\ UNCHANGED <<calls, handlers, stores, current_log_level_val, recognised, persisted>>

\* reader.group_by_month(start_date, end_date)
GroupByMonth ==
    /\ \E start_date \in StartDates, end_date \in EndDates :
       \E got \in get_all_logs_from_handler(handlers[1], stores[1]) :
          last' = Call("group_by_month",
                       [start_date |-> start_date, end_date |-> end_date],
                       got.ret,
                       IF got.raised # "" THEN EmptyDict
                       ELSE group_by_month(got.ret, start_date, end_date),
                       got.raised)
    /\ UNCHANGED <<calls, handlers, stores, current_log_level_val, recognised, persisted>>

NextReader == FindByText \/ GroupByLevel \/ GroupByMonth

\* A ProfilLoggerReader over one handler.
SpecReader == InitReader /\ [][NextReader]_vars

(***************************************************************************)
(* Claims about one handler used through its own methods (SpecHandler)     *)
(***************************************************************************)
\* The (timestamp, level) pairs of a sequence of entries.
Stamps(entries) == [i \in 1..Len(entries) |-> <<entries[i].date, entries[i].level>>]

\* The timestamps of a sequence of entries.
Dates(entries) == [i \in 1..Len(entries) |-> entries[i].date]

\* a is b with some elements left out, the order kept.
RECURSIVE IsSubsequence(_, _)
IsSubsequence(a, b) ==
    IF a = <<>> THEN TRUE
    ELSE IF b = <<>> THEN FALSE
    ELSE IF Head(a) = Head(b) THEN IsSubsequence(Tail(a), Tail(b))
    ELSE IsSubsequence(a, Tail(b))

IsPermutationOf(a, b) ==
    /\ Len(a) = Len(b)
    /\ \E p \in Permutations(1..Len(b)) : a = [i \in 1..Len(b) |-> b[p[i]]]

AscendingDates(entries) ==
    \A i, j \in 1..Len(entries) : i < j => entries[i].date <= entries[j].date

StrictlyAscendingDates(entries) ==
    \A i, j \in 1..Len(entries) : i < j => entries[i].date < entries[j].date

\* C3: after persist(e) of an entry with one of the five levels and a message
\* without a newline, retrieve-all of the same handler returns, without
\* raising, a sequence that contains an entry equal to e in timestamp, level
\* and message.
C3_PersistThenRetrieveContainsEntry ==
    (last.op = "persist" /\ last.raised = "" /\ last.arg.level \in LevelNames) =>
        \A got \in RetrieveAll(handlers[1], stores[1]) :
            /\ got.raised = ""
            /\ \E i \in 1..Len(got.ret) : got.ret[i] = last.arg

\* C6, as claimed: for every handler class, after any sequence of persist
\* calls, with timestamps in any order, retrieve-all returns entries in the
\* order in which they were persisted (read on the timestamps alone: the
\* timestamps returned are in persist order).
C6_RetrievedInPersistOrder ==
    last.op = "retrieve" => IsSubsequence(Dates(last.ret), Dates(persisted))

\* C6, amended: the JSON and CSV handlers return exactly the persisted
\* entries in persist order and the text handler returns entries in persist
\* order; the SQL handler returns the persisted entries in ascending
\* timestamp order, which is the persist order when the timestamps were
\* persisted in strictly increasing order.
C6_PersistOrderExceptSqlByTimestamp ==
    last.op = "retrieve" =>
        /\ handlers[1].class \in {"JsonHandler", "CSVHandler"} => last.ret = persisted
        /\ handlers[1].class = "FileHandler" =>
               IsSubsequence(Stamps(last.ret), Stamps(persisted))
        /\ handlers[1].class = "SQLLiteHandler" =>
               /\ AscendingDates(last.ret)
               /\ IsPermutationOf(last.ret, persisted)
               /\ StrictlyAscendingDates(persisted) => last.ret = persisted

\* The SQL handler has returned two entries in the reverse of the order in
\* which they were persisted.
C6_Witness ==
    /\ last.op = "retrieve"
    /\ handlers[1].class = "SQLLiteHandler"
    /\ Len(persisted) = 2
    /\ persisted[1].date > persisted[2].date
    /\ last.ret = <<persisted[2], persisted[1]>>

\* C8: constructing a handler on a store that exists and holds valid entries
\* does not raise and leaves what retrieve-all returns (the entries and their
\* order) as it was before the construction, however the constructions are
\* interleaved with persist calls.
C8_ConstructKeepsEntries ==
    last.op = "construct" =>
        /\ last.raised = ""
        /\ RetrieveAll(handlers[1], stores[1]) = last.before

\* A handler has been constructed on a store from which retrieve-all returns
\* two entries.
C8_Witness ==
    /\ last.op = "construct"
    /\ Len(persisted) = 2
    /\ \E got \in RetrieveAll(handlers[1], stores[1]) : Len(got.ret) = 2

(***************************************************************************)
(* Claims about a store that is also written from outside (SpecTamper)     *)
(***************************************************************************)
\* The data records of a store: the header row of a CSV file is none.
DataRecords(class, store) ==
    IF class = "CSVHandler" /\ store.recs # <<>> THEN Tail(store.recs) ELSE store.recs

\* The fields of a stored record, as the claim counts them.
FieldsOf(class, rec) ==
    CASE class = "FileHandler" -> split(rec, 2)
      [] class = "CSVHandler" -> rec
      [] class = "JsonHandler" ->
            IF DOMAIN rec = {"date", "level", "message"}
            THEN <<rec.date, rec.level, rec.message>>
            ELSE <<>>
      [] class = "SQLLiteHandler" -> <<rec.timestamp, rec.level, rec.message>>

\* A valid record: three fields, an ISO-8601 date, one of the five levels.
IsValidRecord(class, rec) ==
    LET fields == FieldsOf(class, rec)
    IN  /\ Len(fields) = 3
        /\ fromisoformat(fields[1]).raised = ""
        /\ fields[2] \in LevelNames

EntryOfRecord(class, rec) ==
    LET fields == FieldsOf(class, rec)
    IN  LogEntry(fromisoformat(fields[1]).value, fields[2], fields[3])

\* The entries of the valid records of a store, in stored order.
ValidEntries(class, store) ==
    LET valid == SelectSeq(DataRecords(class, store),
                           LAMBDA rec : IsValidRecord(class, rec))
    IN  [i \in 1..Len(valid) |-> EntryOfRecord(class, valid[i])]

\* The store is readable and each of its records is valid or malformed in
\* one of the three ways.
ValidAndMalformedOnly(class, store) ==
    /\ store.state \in {"ok", "array"}
    /\ class = "CSVHandler" => store.recs # <<>> /\ store.recs[1] = HeaderRow
    /\ LET data == DataRecords(class, store)
       IN  \A i \in 1..Len(data) :
               \/ IsValidRecord(class, data[i])
               \/ (IF class = "SQLLiteHandler" THEN [data[i] EXCEPT !.id = 0]
                   ELSE data[i]) \in MalformedRecords(class)

\* C4: from a store of N valid and M malformed records (wrong number of
\* fields, unparsable date, unknown level) in any order, retrieve-all returns
\* exactly the entries of the N valid records.
C4_MalformedDiscardedValidKept ==
    (last.op = "retrieve" /\ ValidAndMalformedOnly(handlers[1].class, stores[1])) =>
        /\ last.raised = ""
        /\ IsPermutationOf(last.ret, ValidEntries(handlers[1].class, stores[1]))

\* C5: retrieve-all never raises, whatever the store holds, and returns the
\* empty sequence from a store that is missing, empty or unparsable.
C5_RetrieveNeverRaises ==
    last.op = "retrieve" =>
        /\ last.raised = ""
        /\ (stores[1].state \in {"missing", "empty", "malformed"} \/ stores[1].recs = <<>>)
               => last.ret = <<>>

(***************************************************************************)
(* Claims about ProfilLogger (Spec)                                        *)
(***************************************************************************)
IsLogCall == last.op \in DOMAIN LevelOfMethod

\* The call passed the threshold in force.
Passed == LOG_LEVEL_VALUES[last.arg.level] >= current_log_level_val

\* C1: a call of debug/info/warning/error/critical whose level is below the
\* threshold leaves every handler's store as it was; a call whose level is at
\* or above the threshold adds exactly one record to the store of each
\* handler whose persist does not fail.
C1_LevelGating ==
    IsLogCall =>
        \A i \in 1..Len(stores) :
            Len(stores[i].recs) =
                last.before[i] + (IF Passed /\ stores[i].writable THEN 1 ELSE 0)

\* A call below the threshold, after one that passed, has changed no store.
C1_Witness ==
    /\ IsLogCall
    /\ ~Passed
    /\ Len(persisted) = 1
    /\ Counts(stores) = last.before
    /\ \E i \in 1..Len(stores) : stores[i].writable /\ Len(stores[i].recs) > 0

\* C2: with any subset of the handlers failing on every persist, one call at
\* or above the threshold raises nothing, persists the entry to every handler
\* that does not fail, wherever it stands in the list, and calls the persist
\* method of each failing handler once, leaving its store unchanged.
C2_FailureIsolation ==
    (IsLogCall /\ Passed) =>
        /\ last.raised = ""
        /\ Len(last.ret) = Len(handlers)
        /\ \A i \in 1..Len(handlers) :
              /\ last.ret[i].attempts = <<PersistMethodOf(handlers[i].class)>>
              /\ last.ret[i].error_logged = ~stores[i].writable
              /\ stores[i].writable =>
                    \A got \in RetrieveAll(handlers[i], stores[i]) :
                        /\ got.raised = ""
                        /\ got.ret # <<>>
                        /\ got.ret[Len(got.ret)] = last.arg
              /\ stores[i].writable => Len(stores[i].recs) = last.before[i] + 1
              /\ ~stores[i].writable => Len(stores[i].recs) = last.before[i]

\* A call has reached a working handler that stands between two failing ones.
C2_Witness ==
    /\ IsLogCall
    /\ Passed
    /\ Len(handlers) = 3
    /\ ~stores[1].writable /\ stores[2].writable /\ ~stores[3].writable
    /\ Len(stores[2].recs) = last.before[2] + 1

\* C7: the threshold of a new ProfilLogger is DEBUG; after any sequence of
\* set_log_level calls it is the level of the last name that matched one of
\* the five levels ignoring case (DEBUG if none did), so a name that matches
\* none leaves it unchanged, and it is always the value of one of the levels.
C7_ThresholdIsLastRecognisedName ==
    /\ last.op = "init" => current_log_level_val = LOG_LEVEL_VALUES[DEBUG]
    /\ recognised \in LevelNames
    /\ current_log_level_val = LOG_LEVEL_VALUES[recognised]

\* An unrecognised name has left the threshold at ERROR, which a lower-case
\* name had set.
C7_Witness ==
    /\ last.op = "set_log_level"
    /\ last.arg = <<"unknown">>
    /\ current_log_level_val = LOG_LEVEL_VALUES[ERROR]

(***************************************************************************)
(* Claims about ProfilLoggerReader (SpecReader)                            *)
(***************************************************************************)
\* The half-open date range of the claims.
InRange(entry, start_date, end_date) ==
    /\ (start_date = NoDate \/ entry.date >= start_date)
    /\ (end_date = NoDate \/ entry.date < end_date)

\* C9: find_by_text(text, start, end) returns exactly the entries of the
\* handler's retrieve-all result, in retrieval order, whose message contains
\* text (case-sensitive) and whose timestamp t has (start unset or t >= start)
\* and (end unset or t < end): an entry at start is kept, an entry at end is
\* dropped.
C9_FindByTextFiltersHalfOpen ==
    last.op = "find_by_text" =>
        /\ last.raised = ""
        /\ last.ret = SelectSeq(last.before, LAMBDA entry :
                          /\ Contains(last.arg.text, entry.message)
                          /\ InRange(entry, last.arg.start_date, last.arg.end_date))
        /\ \A i \in 1..Len(last.before) :
              /\ last.before[i].date = last.arg.end_date =>
                    \A j \in 1..Len(last.ret) : last.ret[j] # last.before[i]
              /\ (/\ last.before[i].date = last.arg.start_date
                  /\ last.arg.end_date = NoDate
                  /\ Contains(last.arg.text, last.before[i].message)) =>
                    \E j \in 1..Len(last.ret) : last.ret[j] = last.before[i]

\* A search with both bounds set has kept the entry at start and dropped the
\* entry at end and the entry whose message differs in case.
C9_Witness ==
    /\ last.op = "find_by_text"
    /\ last.arg = [text |-> <<"A">>, start_date |-> 2, end_date |-> 3]
    /\ Len(last.before) = 3
    /\ \E i \in 1..3 : last.before[i].date = 3
    /\ \E i \in 1..3 : last.before[i].date = 1
    /\ last.ret = <<LogEntry(2, ERROR, <<"A", "a">>)>>

\* The key under which a grouping files an entry.
GroupKey(op, entry) ==
    IF op = "group_by_level" THEN entry.level ELSE strftime_Ym(entry.date)

\* C10: group_by_level and group_by_month return a mapping in which every
\* retrieved entry inside the date range is in exactly one group, the one of
\* its own key (level name, or "YYYY-MM" of its timestamp); each group holds
\* its entries in retrieval order; no key maps to an empty list.
C10_GroupingIsPartition ==
    last.op \in {"group_by_level", "group_by_month"} =>
        LET kept == SelectSeq(last.before, LAMBDA entry :
                        InRange(entry, last.arg.start_date, last.arg.end_date))
        IN  /\ last.raised = ""
            /\ DOMAIN last.ret = {GroupKey(last.op, kept[i]) : i \in 1..Len(kept)}
            /\ \A key \in DOMAIN last.ret :
                  /\ last.ret[key] # <<>>
                  /\ last.ret[key] =
                        SelectSeq(kept, LAMBDA entry : GroupKey(last.op, entry) = key)

\* A grouping by level has put the first and the third retrieved entry under
\* INFO, in that order, and the second under ERROR.
C10_Witness ==
    /\ last.op = "group_by_level"
    /\ Len(last.before) = 3
    /\ DOMAIN last.ret = {INFO, ERROR}
    /\ last.ret[INFO] = <<last.before[1], last.before[3]>>
    /\ last.ret[ERROR] = <<last.before[2]>>
    /\ last.before[1] # last.before[3]

(***************************************************************************)
(* ProfilLoggerReader.find_by_regex                                        *)
(***************************************************************************)
\* A pattern is a sequence of tokens: "^" and "$" anchor, "." is any
\* character, "(" opens a group and ")" closes one, any other token is that
\* character.  A message is matched character by character, its atoms being
\* its characters.
\* re.compile(regex): re.error for a group that is not closed or not opened.
re_compile(regex) ==
    IF \E i \in 1..Len(regex) : regex[i] \in {"(", ")"}
    THEN [raised |-> "re.error", value |-> <<>>]
    ELSE [raised |-> "", value |-> regex]

\* The pattern from its i-th token on matches the message from offset j on.
RECURSIVE MatchHere(_, _, _, _)
MatchHere(pattern, i, message, j) ==
    IF i > Len(pattern) THEN TRUE
    ELSE CASE pattern[i] = "^" -> j = 0 /\ MatchHere(pattern, i + 1, message, j)
           [] pattern[i] = "$" -> j = Len(message) /\ MatchHere(pattern, i + 1, message, j)
           [] pattern[i] = "." ->
                 /\ j < Len(message)
                 /\ MatchHere(pattern, i + 1, message, j + 1)
           [] OTHER ->
                 /\ j < Len(message)
                 /\ message[j + 1] = pattern[i]
                 /\ MatchHere(pattern, i + 1, message, j + 1)

\* pattern.search(message): a match at any offset.
search(pattern, message) ==
    \E j \in 0..Len(message) : MatchHere(pattern, 1, message, j)

\* ProfilLoggerReader.find_by_regex on what the handler returned: the
\* messages are searched before the dates are filtered, and searching a
\* message that is no str raises TypeError, which the except clause for
\* re.error lets through.
find_by_regex(all_logs, regex, start_date, end_date) ==
    LET pattern == re_compile(regex)
    IN  IF pattern.raised # "" THEN [raised |-> "", ret |-> <<>>]
        ELSE IF \E i \in 1..Len(all_logs) : ~IsStr(all_logs[i].message)
        THEN [raised |-> "TypeError", ret |-> <<>>]
        ELSE [raised |-> "",
              ret |-> filter_by_date(
                          SelectSeq(all_logs,
                                    LAMBDA entry : search(pattern.value, entry.message)),
                          start_date, end_date)]

\* What has happened to the store since the entries were persisted.
Tamperings(class) ==
    {[kind |-> "none"]}
        \cup {[kind |-> "clobber", state |-> st] : st \in ClobberStates(class)}
        \cup {[kind |-> "append", rec |-> r] :
                 r \in MalformedRecords(class) \cup ForeignRecords(class)}

Tampered(class, store, t) ==
    CASE t.kind = "none" -> store
      [] t.kind = "clobber" -> [store EXCEPT !.state = t.state, !.recs = <<>>]
      [] t.kind = "append" ->
            [store EXCEPT !.recs =
                Append(@, IF class = "SQLLiteHandler"
                          THEN [t.rec EXCEPT !.id = Len(store.recs) + 1]
                          ELSE t.rec)]

\* ProfilLoggerReader(handler): the handler's store holds entries persisted
\* through it and may have been written from outside since.
InitRegex ==
    /\ \E class \in Classes, entries \in SeqsUpTo(ReaderEntries, MaxStore) :
       \E t \in Tamperings(class) :
          LET new == NewHandler(class, MissingStore)
              filled == PersistAll(new.self, new.store, entries)
          IN  /\ handlers = <<filled.self>>
              /\ stores = <<Tampered(class, filled.store, t)>>
              /\ persisted = entries
    /\ current_log_level_val = LOG_LEVEL_VALUES[DEFAULT_LOG_LEVEL]
    /\ recognised = DEFAULT_LOG_LEVEL
    /\ last = Call("init", <<>>, <<>>, <<>>, "")
    /\ calls = <<>>

\* The patterns searched for: a character, a character at the start, and a
\* pattern that does not compile.
Regexes == {<<"a">>, <<"^", "a">>, <<"(">>}

\* reader.find_by_regex(regex, start_date, end_date); before is what the
\* handler returned.
FindByRegex ==
    /\ \E regex \in Regexes, start_date \in StartDates, end_date \in EndDates :
       \E got \in get_all_logs_from_handler(handlers[1], stores[1]) :
          LET found == IF got.raised # "" THEN got
                       ELSE find_by_regex(got.ret, regex, start_date, end_date)
          IN  last' = Call("find_by_regex",
                           [regex |-> regex, start_date |-> start_date,
                            end_date |-> end_date],
                           got.ret, found.ret, found.raised)
    /\ UNCHANGED <<calls, handlers, stores, current_log_level_val, recognised, persisted>>

NextRegex == FindByRegex

\* A ProfilLoggerReader searching by pattern over one handler.
SpecRegex == InitRegex /\ [][NextRegex]_vars

(***************************************************************************)
(* Claims about find_by_regex (SpecRegex)                                  *)
(***************************************************************************)
\* C11: find_by_regex(pattern, start, end) with a pattern that does not
\* compile returns the empty list and raises nothing, whatever the store
\* holds; with a pattern that compiles it raises nothing and returns exactly
\* the retrieved entries, in retrieval order, whose message the pattern
\* matches at some offset and whose timestamp is in the half-open range.
C11_FindByRegex ==
    last.op = "find_by_regex" =>
        /\ last.raised = ""
        /\ re_compile(last.arg.regex).raised # "" => last.ret = <<>>
        /\ re_compile(last.arg.regex).raised = "" =>
              last.ret = SelectSeq(last.before, LAMBDA entry :
                             /\ search(last.arg.regex, entry.message)
                             /\ InRange(entry, last.arg.start_date, last.arg.end_date))

(***************************************************************************)
(* LogEntry.from_dict and LogEntry.to_dict called directly                 *)
(***************************************************************************)
\* The values of the keys of a dict handed to from_dict: a date is an
\* ISO-8601 text, another text, a number or None; a level is one of the
\* five, an unknown name, a known name in lower case or a number; a message
\* is a text, the empty text or None.
DictDates == {isoformat(d) : d \in DateTimes} \cup {<<"not-a-date">>, NOTSTR, NONE}
DictLevels == LevelNames \cup {<<"TREX">>, <<"info">>, NOTSTR}
DictMessages == {<<"a">>, <<>>, NONE}

\* The dicts handed to from_dict: any of the three keys may be missing.
DictInputs ==
    {[k \in keys |-> full[k]] :
        full \in [date : DictDates, level : DictLevels, message : DictMessages],
        keys \in SUBSET {"date", "level", "message"}}

\* The entries converted to a dict and back.
EntryInputs ==
    {LogEntry(d, l, m) : d \in DateTimes, l \in LevelNames \cup {<<"TREX">>},
                         m \in Messages}

InitEntry ==
    /\ handlers = <<>>
    /\ stores = <<>>
    /\ current_log_level_val = LOG_LEVEL_VALUES[DEFAULT_LOG_LEVEL]
    /\ recognised = DEFAULT_LOG_LEVEL
    /\ persisted = <<>>
    /\ last = Call("init", <<>>, <<>>, <<>>, "")
    /\ calls = <<>>

\* LogEntry.from_dict(data)
FromDict ==
    /\ \E data \in DictInputs :
          LET made == from_dict(data)
          IN  last' = Call("from_dict", data, <<>>, made.value, made.raised)
    /\ UNCHANGED <<calls, handlers, stores, current_log_level_val, recognised, persisted>>

\* LogEntry.from_dict(entry.to_dict()); before is the dict.
ToDictFromDict ==
    /\ \E entry \in EntryInputs :
          LET made == from_dict(to_dict(entry))
          IN  last' = Call("to_dict_from_dict", entry, to_dict(entry), made.value,
                           made.raised)
    /\ UNCHANGED <<calls, handlers, stores, current_log_level_val, recognised, persisted>>

NextEntry == FromDict \/ ToDictFromDict

\* LogEntry's conversions applied to dicts and entries.
SpecEntry == InitEntry /\ [][NextEntry]_vars

(***************************************************************************)
(* Claims about LogEntry (SpecEntry)                                       *)
(***************************************************************************)
\* The instants whose ISO-8601 text the value is.
InstantsOf(text) == {d \in DateTimes : text = <<IsoTable[d]>>}

JsonEntries ==
    {LogEntry(1, INFO, <<"a">>), LogEntry(2, ERROR, <<"a", " ", "b">>),
     LogEntry(1, DEBUG, <<>>), LogEntry(3, WARNING, <<" ", "a">>),
     LogEntry(2, CRITICAL, <<"a", " ">>)}

\* JsonHandler(path) on a path where nothing exists.
InitJson ==
    /\ LET new == JsonHandler_init(MissingStore)
       IN  /\ handlers = <<new.self>>
           /\ stores = <<new.store>>
    /\ current_log_level_val = LOG_LEVEL_VALUES[DEFAULT_LOG_LEVEL]
    /\ recognised = DEFAULT_LOG_LEVEL
    /\ persisted = <<>>
    /\ last = Call("init", <<>>, <<>>, <<>>, "")
    /\ calls = <<>>

\* handler.persist_log_json(entry); before is the file as the call found it,
\* persisted are the entries persisted since the file was last replaced.
PersistJson ==
    /\ Len(persisted) < MaxStore
    /\ \E entry \in JsonEntries :
          LET done == persist_log_json(handlers[1], stores[1], entry)
          IN  /\ handlers' = <<done.self>>
              /\ stores' = <<done.store>>
              /\ persisted' = IF done.raised = "" THEN Append(persisted, entry)
                              ELSE persisted
              /\ last' = Call("persist_log_json", entry, stores[1], <<>>, done.raised)
    /\ UNCHANGED <<calls, current_log_level_val, recognised>>

\* handler.retrieve_all_logs_json()
RetrieveJson ==
    /\ LET got == retrieve_all_logs_json(handlers[1], stores[1])
       IN  last' = Call("retrieve_all_logs_json", <<>>, stores[1], got.ret, got.raised)
    /\ UNCHANGED <<calls, handlers, stores, current_log_level_val, recognised, persisted>>

\* The file is deleted, truncated, or overwritten with other content.
ClobberJson ==
    /\ \E state \in ClobberStates("JsonHandler") :
          /\ stores' = <<[stores[1] EXCEPT !.state = state, !.recs = <<>>]>>
          /\ last' = Call("clobber", state, <<>>, <<>>, "")
    /\ persisted' = <<>>
    /\ UNCHANGED <<calls, handlers, current_log_level_val, recognised>>

NextJson == Construct \/ PersistJson \/ RetrieveJson \/ ClobberJson

\* One JsonHandler and its file.
SpecJson == InitJson /\ [][NextJson]_vars

(***************************************************************************)
(* Claims about JsonHandler (SpecJson)                                     *)
(***************************************************************************)
\* The file states that are read as the empty array.
ReadAsEmpty == {"missing", "empty", "malformed"}

\* C13: persist_log_json(e) on a file holding a valid array of k entries
\* leaves the file holding those k entries in the same order followed by e,
\* so k persists on a fresh store give k entries on retrieve-all; on a file
\* that is missing, empty or malformed retrieve-all returns the empty list,
\* and persist_log_json(e) succeeds and leaves the file holding exactly [e].
C13_JsonAppendByRewrite ==
    /\ last.op = "persist_log_json" /\ last.before.state = "array" =>
          /\ last.raised = ""
          /\ stores[1].state = "array"
          /\ stores[1].recs = last.before.recs \o <<to_dict(last.arg)>>
          /\ retrieve_all_logs_json(handlers[1], stores[1]).ret =
                Append(retrieve_all_logs_json(handlers[1], last.before).ret, last.arg)
    /\ last.op = "persist_log_json" /\ last.before.state \in ReadAsEmpty =>
          /\ last.raised = ""
          /\ retrieve_all_logs_json(handlers[1], last.before) = [raised |-> "", ret |-> <<>>]
          /\ stores[1].state = "array"
          /\ stores[1].recs = <<to_dict(last.arg)>>
          /\ retrieve_all_logs_json(handlers[1], stores[1]) =
                [raised |-> "", ret |-> <<last.arg>>]
    /\ last.op = "retrieve_all_logs_json" /\ last.before.state \in ReadAsEmpty =>
          last.raised = "" /\ last.ret = <<>>
    /\ stores[1].state = "array" =>
          retrieve_all_logs_json(handlers[1], stores[1]) =
              [raised |-> "", ret |-> persisted]

\* A second, different entry has been persisted: the file holds the two,
\* in the order of persisting.
C13_Witness ==
    /\ last.op = "persist_log_json"
    /\ last.before.state = "array"
    /\ Len(last.before.recs) = 1
    /\ Len(persisted) = 2
    /\ persisted[1] # persisted[2]
    /\ stores[1].recs = <<to_dict(persisted[1]), to_dict(persisted[2])>>

(***************************************************************************)
(* Two threads calling persist_log_json on one file                        *)
(***************************************************************************)
\* The reading half of persist_log_json: all_logs_data after the try block.
json_load(store) ==
    IF store.state \in {"missing", "empty", "malformed"} THEN <<>> ELSE store.recs

\* json.dump that adds the last element of all_logs_data to what the file
\* holds when it is written.
json_dump_appends(store, all_logs_data) ==
    [store EXCEPT !.state = "array",
                  !.recs = json_load(store) \o <<all_logs_data[Len(all_logs_data)]>>]

\* The writing half: open(self.filepath, "w") and json.dump(all_logs_data).
json_dump(store, all_logs_data) ==
    [store EXCEPT !.state = "array", !.recs = all_logs_data]

\* The entry the file holds before the calls, and the entries of the calls.
RaceStored == LogEntry(1, INFO, <<"a">>)
RaceEntries ==
    {LogEntry(2, INFO, <<"b">>), LogEntry(2, ERROR, <<"a", " ", "b">>),
     LogEntry(3, DEBUG, <<>>)}

\* Two threads are about to call persist_log_json, each with its own entry,
\* on a file that holds entries persisted before, or has been deleted,
\* truncated or filled with text that is no JSON.  dumps_seen is history:
\* the number of calls that had written when the call read.
InitRace ==
    /\ handlers = <<JsonHandler_init(MissingStore).self>>
    /\ \E entries \in SeqsUpTo({RaceStored}, MaxStore),
          state \in {"array", "missing", "empty", "malformed"} :
          /\ state # "array" => entries = <<>>
          /\ stores = <<[PersistAll(handlers[1], JsonHandler_init(MissingStore).store,
                                    entries).store EXCEPT !.state = state]>>
          /\ persisted = entries
    /\ \E e1, e2 \in RaceEntries :
          /\ e1 # e2
          /\ calls = [t \in 1..2 |->
                         [pc |-> "load", entry |-> IF t = 1 THEN e1 ELSE e2,
                          all_logs_data |-> <<>>, dumps_seen |-> 0]]
    /\ current_log_level_val = LOG_LEVEL_VALUES[DEFAULT_LOG_LEVEL]
    /\ recognised = DEFAULT_LOG_LEVEL
    /\ last = Call("init", <<>>, <<>>, <<>>, "")

\* Thread t reads the whole file and appends its entry to the list it read.
Load(t) ==
    /\ calls[t].pc = "load"
    /\ calls' = [calls EXCEPT
                    ![t].pc = "dump",
                    ![t].all_logs_data = Append(json_load(stores[1]),
                                                to_dict(calls[t].entry)),
                    ![t].dumps_seen =
                        Cardinality({u \in 1..2 : calls[u].pc = "done"})]
    /\ last' = Call("load", t, <<>>, <<>>, "")
    /\ UNCHANGED <<handlers, stores, current_log_level_val, recognised, persisted>>

\* Thread t rewrites the whole file with its list and returns.
Dump(t) ==
    /\ calls[t].pc = "dump"
    /\ stores' = <<json_dump(stores[1], calls[t].all_logs_data)>>
    /\ calls' = [calls EXCEPT ![t].pc = "done"]
    /\ last' = Call("dump", t, <<>>, <<>>, "")
    /\ UNCHANGED <<handlers, current_log_level_val, recognised, persisted>>

LoadAny == \E t \in 1..2 : Load(t)
DumpAny == \E t \in 1..2 : Dump(t)

NextRace == LoadAny \/ DumpAny

\* Two concurrent persist_log_json calls on one file.
SpecRace == InitRace /\ [][NextRace]_vars

(***************************************************************************)
(* Claims about concurrent JSON persists (SpecRace)                        *)
(***************************************************************************)
BothDone == \A t \in 1..2 : calls[t].pc = "done"

\* The dicts the file held before the calls.
StoredBefore == [i \in 1..Len(persisted) |-> to_dict(persisted[i])]

\* The file after persist_log_json(first) and then persist_log_json(second),
\* each as one step.
OneAfterTheOther(first, second) ==
    LET start == [stores[1] EXCEPT !.state = "array", !.recs = StoredBefore]
        one == persist_log_json(handlers[1], start, calls[first].entry)
    IN  persist_log_json(one.self, one.store, calls[second].entry).store

\* C14: when two persist_log_json calls on one file have both returned, the
\* file holds the former entries followed by only one of the two new
\* entries if both calls read before either wrote, and by both new entries,
\* as two calls made one after the other leave it, if one call wrote before
\* the other read.
C14_LostUpdateIffBothReadFirst ==
    BothDone =>
        /\ (\A t \in 1..2 : calls[t].dumps_seen = 0) =>
              \E t \in 1..2 :
                 stores[1].recs = StoredBefore \o <<to_dict(calls[t].entry)>>
        /\ \A t \in 1..2 :
              calls[t].dumps_seen = 1 =>
                 /\ stores[1] = OneAfterTheOther(3 - t, t)
                 /\ stores[1].recs =
                       StoredBefore \o <<to_dict(calls[3 - t].entry),
                                         to_dict(calls[t].entry)>>

\* Both calls read before either wrote, both have returned, and the file
\* holds one entry more than before: the entry of the first to write is lost.
C14_Witness ==
    /\ BothDone
    /\ \A t \in 1..2 : calls[t].dumps_seen = 0
    /\ last = Call("dump", 2, <<>>, <<>>, "")
    /\ Len(persisted) = 1
    /\ stores[1].recs = <<to_dict(RaceStored), to_dict(calls[2].entry)>>

(***************************************************************************)
(* ProfilLogger over one handler that exposes any of the persist methods   *)
(***************************************************************************)
\* ProfilLogger([handler]): the handler exposes any subset of the four
\* persist methods, and any subset of those it exposes raise.
InitFallback ==
    /\ \E exposes \in SUBSET {persist_methods[i] : i \in 1..Len(persist_methods)} :
       \E failing \in SUBSET exposes :
          handlers = <<[class |-> "DuckHandler", exposes |-> exposes,
                        failing |-> failing]>>
    /\ stores = <<[writable |-> TRUE, state |-> "ok", recs |-> <<>>]>>
    /\ current_log_level_val = LOG_LEVEL_VALUES[DEFAULT_LOG_LEVEL]
    /\ recognised = DEFAULT_LOG_LEVEL
    /\ persisted = <<>>
    /\ last = Call("init", <<>>, <<>>, <<>>, "")
    /\ calls = <<>>

NextFallback == Log

\* A ProfilLogger logging to one such handler.
SpecFallback == InitFallback /\ [][NextFallback]_vars

(***************************************************************************)
(* Claims about the method fallback (SpecFallback)                         *)
(***************************************************************************)
\* The order in which the methods are to be tried.
SqlJsonCsvFile ==
    <<"persist_log_sql", "persist_log_json", "persist_log_csv", "persist_log_file">>

\* The methods the handler exposes, and those of them that do not raise, in
\* that order.
Exposed == SelectSeq(SqlJsonCsvFile, LAMBDA m : m \in handlers[1].exposes)
Working == SelectSeq(Exposed, LAMBDA m : m \notin handlers[1].failing)

\* The exposed methods up to and including the first that does not raise;
\* all of them when every one raises.
UpToFirstWorking ==
    IF Working = <<>> THEN Exposed
    ELSE SubSeq(Exposed, 1,
                CHOOSE i \in 1..Len(Exposed) :
                    /\ Exposed[i] = Working[1]
                    /\ \A j \in 1..(i - 1) : Exposed[j] # Working[1])

\* C15: one log call on a handler tries the persist methods the handler
\* exposes in the order sql, json, csv, file and stops at the first that
\* completes without raising, so each entry is written once, through that
\* method and no other; when every exposed method raises, or the handler
\* exposes none, every exposed method has been tried, nothing is written,
\* the failure is logged and nothing is raised.
C15_FirstWorkingMethodOnly ==
    /\ IsLogCall =>
          /\ last.raised = ""
          /\ Len(last.ret) = 1
          /\ last.ret[1].attempts = UpToFirstWorking
          /\ last.ret[1].error_logged = (Working = <<>>)
    /\ stores[1].recs = IF Working = <<>> THEN <<>>
                        ELSE [i \in 1..Len(persisted) |-> <<Working[1], persisted[i]>>]

\* A handler exposing the sql, json and file methods, of which sql raises:
\* the call tried sql, wrote through json and never called file.
C15_Witness ==
    /\ IsLogCall
    /\ handlers[1].exposes = {"persist_log_sql", "persist_log_json", "persist_log_file"}
    /\ handlers[1].failing = {"persist_log_sql"}
    /\ last.ret[1].attempts = <<"persist_log_sql", "persist_log_json">>
    /\ stores[1].recs = <<<<"persist_log_json", last.arg>>>>

====
